---- MODULE Spec2Model ----
(***************************************************************************)
(* A model of the Noise handshake state machine of noise-rust              *)
(* (src/src/handshakestate.rs) run by two parties, an initiator "I" and a  *)
(* responder "R", over a channel that may deliver, truncate or corrupt     *)
(* each message.                                                           *)
(*                                                                         *)
(* Byte strings are symbolic: a byte string is a sequence of chunks        *)
(* <<term, lo, hi>>, the bytes lo..hi of the value `term`.  Two byte       *)
(* strings are equal exactly when their normal forms are equal; the        *)
(* primitives (hash, HKDF, DH, AEAD) are free constructors, so distinct    *)
(* inputs give distinct outputs.                                           *)
(***************************************************************************)
EXTENDS Integers, Sequences, FiniteSets, TLC

\* B(v), with v evaluated once.
With(v, B(_)) == CHOOSE y \in {B(w) : w \in {v}} : TRUE

\* Option<T>: None is the empty sequence, Some(x) the one-element sequence.
None == << >>
Some(x) == <<x>>
unwrap(o) == o[1]

(* ---------------------------------------------------------------- bounds *)

\* Payloads of 0..MaxPayload bytes are written.
MaxPayload == 1

\* At most MaxSplits calls of get_ciphers per party.
MaxSplits == 2

\* The channel cuts or corrupts at most MaxFaults messages.
MaxFaults == 1

(* ------------------------------------------------------ program constants *)

DHLEN == 32
TAGLEN == 16
KEYLEN == 32

(* ------------------------------------------------------------ byte strings *)

Whole(t, len) == IF len = 0 THEN << >> ELSE << <<t, 1, len>> >>

RECURSIVE BLen(_)
BLen(bs) == IF bs = << >> THEN 0 ELSE (bs[1][3] - bs[1][2] + 1) + BLen(Tail(bs))

\* Concatenation, joining two adjacent ranges of the same term.
Cat(a, b) ==
    IF a = << >> THEN b
    ELSE IF b = << >> THEN a
    ELSE LET x == a[Len(a)]
             y == b[1]
         IN IF x[1] = y[1] /\ x[3] + 1 = y[2]
            THEN SubSeq(a, 1, Len(a) - 1) \o << <<x[1], x[2], y[3]>> >> \o Tail(b)
            ELSE a \o b

\* bs[..n], for 0 <= n <= BLen(bs)
RECURSIVE Take(_, _)
Take(bs, n) ==
    IF n = 0 \/ bs = << >> THEN << >>
    ELSE LET c == bs[1]
             l == c[3] - c[2] + 1
         IN IF n >= l THEN <<c>> \o Take(Tail(bs), n - l)
            ELSE << <<c[1], c[2], c[2] + n - 1>> >>

\* bs[n..], for 0 <= n <= BLen(bs)
RECURSIVE Drop(_, _)
Drop(bs, n) ==
    IF n = 0 \/ bs = << >> THEN bs
    ELSE LET c == bs[1]
             l == c[3] - c[2] + 1
         IN IF n >= l THEN Drop(Tail(bs), n - l)
            ELSE << <<c[1], c[2] + n, c[3]>> >> \o Tail(bs)

\* A byte that differs from every byte a party produces.
Junk == << <<"junk">>, 1, 1 >>

\* bs with byte i (1-based) replaced by a different byte.
Corrupt(bs, i) == Cat(Cat(Take(bs, i - 1), <<Junk>>), Drop(bs, i))

\* A literal of len bytes (a payload or a prologue).
Lit(name, len) == Whole(<<"lit", name, len>>, len)

(* ---------------------------------------------------------------- the DH *)

\* The public key of the key pair whose private key is `priv`.
get_pubkey_vec(priv) == Whole(<<"pub", priv>>, DHLEN)

\* curve25519(priv, pubkey): commutative on genuine public keys.
dh_vec(priv, pubkey) ==
    IF Len(pubkey) = 1 /\ pubkey[1][1][1] = "pub" /\ pubkey[1][2] = 1 /\ pubkey[1][3] = DHLEN
    THEN Whole(<<"dh", {priv, pubkey[1][1][2]}>>, DHLEN)
    ELSE Whole(<<"dhx", priv, pubkey>>, DHLEN)

(* -------------------------------------------------------------- the AEAD *)

\* The keystream-encrypted plaintext followed by the tag over (ad, body).
Encrypt(k, n, ad, plaintext) ==
    LET body == Whole(<<"enc", k, n, plaintext>>, BLen(plaintext))
    IN Cat(body, Whole(<<"tag", k, n, ad, body>>, TAGLEN))

\* Decrypt with the tag left unverified.
Decrypt_notag(k, n, ad, ciphertext) ==
    IF BLen(ciphertext) < TAGLEN THEN None
    ELSE LET text_len == BLen(ciphertext) - TAGLEN
             body == Take(ciphertext, text_len)
         IN IF body = << >> THEN Some(<< >>)
            ELSE IF /\ Len(body) = 1
                    /\ body[1][1][1] = "enc" /\ body[1][1][2] = k /\ body[1][1][3] = n
                    /\ body[1][2] = 1 /\ body[1][3] = BLen(body[1][1][4])
                 THEN Some(body[1][1][4])
                 ELSE Some(Whole(<<"dec", k, n, body>>, text_len))

\* Some(plaintext), or None when the tag does not verify.
Decrypt(k, n, ad, ciphertext) ==
    IF BLen(ciphertext) < TAGLEN THEN None
    ELSE LET text_len == BLen(ciphertext) - TAGLEN
             body == Take(ciphertext, text_len)
             tag == Drop(ciphertext, text_len)
         IN IF tag # Whole(<<"tag", k, n, ad, body>>, TAGLEN) THEN None
            ELSE IF body = << >> THEN Some(<< >>)
            ELSE IF /\ Len(body) = 1
                    /\ body[1][1][1] = "enc" /\ body[1][1][2] = k /\ body[1][1][3] = n
                    /\ body[1][2] = 1 /\ body[1][3] = BLen(body[1][1][4])
                 THEN Some(body[1][1][4])
                 ELSE Some(Whole(<<"dec", k, n, body>>, text_len))

(* ------------------------------------------------- hash and key derivation *)

hash_len(hname) == IF hname \in {"SHA256", "BLAKE2s"} THEN 32 ELSE 64

\* Hash(data), hash_len bytes.
Hash(hname, data) == Whole(<<"hash", hname, data>>, hash_len(hname))

\* The i-th output block of HKDF(ck, ikm, 2).
HKDF(hname, ck, ikm, i) == Whole(<<"hkdf", hname, ck, ikm, i>>, hash_len(hname))

(* ------------------------------------------------------------ CipherState *)

\* EncryptWithAd: [cs, out]
EncryptWithAd(cs, ad, plaintext) ==
    IF cs.k # None
    THEN [cs |-> [cs EXCEPT !.n = cs.n + 1],
          out |-> Encrypt(unwrap(cs.k), cs.n, ad, plaintext)]
    ELSE [cs |-> cs, out |-> plaintext]

\* DecryptWithAd: [cs, out], out = None on authentication failure
DecryptWithAd(cs, ad, ciphertext) ==
    IF cs.k # None
    THEN With(Decrypt(unwrap(cs.k), cs.n, ad, ciphertext),
              LAMBDA p : IF p = None THEN [cs |-> cs, out |-> None]
                         ELSE [cs |-> [cs EXCEPT !.n = cs.n + 1], out |-> p])
    ELSE [cs |-> cs, out |-> Some(ciphertext)]

(* --------------------------------------------------------- SymmetricState *)

\* SymmetricState::new(protocol name): [hname, ck, h, cs]
SymmetricNew(hname, pn) ==
    LET h == IF BLen(pn) <= hash_len(hname)
             THEN Cat(pn, Whole(<<"zeros">>, hash_len(hname) - BLen(pn)))
             ELSE Hash(hname, pn)
    IN [hname |-> hname, ck |-> h, h |-> h, cs |-> [k |-> None, n |-> 0]]

has_key(sym) == sym.cs.k # None

mix_hash(sym, data) == [sym EXCEPT !.h = Hash(sym.hname, Cat(sym.h, data))]

mix_key(sym, ikm) ==
    [sym EXCEPT !.ck = HKDF(sym.hname, sym.ck, ikm, 1),
                !.cs = [k |-> Some(Take(HKDF(sym.hname, sym.ck, ikm, 2), KEYLEN)),
                        n |-> 0]]

\* [sym, out]
encrypt_and_hash_vec(sym, plaintext) ==
    With(EncryptWithAd(sym.cs, sym.h, plaintext),
         LAMBDA r : [sym |-> mix_hash([sym EXCEPT !.cs = r.cs], r.out), out |-> r.out])

\* [sym, out], out = None on authentication failure (nothing is mixed then)
decrypt_and_hash_vec(sym, ciphertext) ==
    With(DecryptWithAd(sym.cs, sym.h, ciphertext),
         LAMBDA r : IF r.out = None THEN [sym |-> sym, out |-> None]
                    ELSE [sym |-> mix_hash([sym EXCEPT !.cs = r.cs], ciphertext),
                          out |-> r.out])

\* The two transport cipher states.
split(sym) ==
    << [k |-> Some(Take(HKDF(sym.hname, sym.ck, << >>, 1), KEYLEN)), n |-> 0],
       [k |-> Some(Take(HKDF(sym.hname, sym.ck, << >>, 2), KEYLEN)), n |-> 0] >>

(* ------------------------------------------------------ handshake patterns *)

\* A pattern: its name, the two pre-messages and the message patterns.
Pat(name, pre_i, pre_r, msgs) ==
    [name |-> name, pre_i |-> pre_i, pre_r |-> pre_r, msgs |-> msgs]

Patterns ==
    << Pat("N",  << >>,    <<"S">>, << <<"E", "ES">> >>),
       Pat("K",  <<"S">>,  <<"S">>, << <<"E", "ES", "SS">> >>),
       Pat("X",  << >>,    <<"S">>, << <<"E", "ES", "S", "SS">> >>),
       Pat("NN", << >>,    << >>,   << <<"E">>, <<"E", "EE">> >>),
       Pat("NK", << >>,    <<"S">>, << <<"E", "ES">>, <<"E", "EE">> >>),
       Pat("NX", << >>,    << >>,   << <<"E">>, <<"E", "EE", "S", "ES">> >>),
       Pat("XN", << >>,    << >>,   << <<"E">>, <<"E", "EE">>, <<"S", "SE">> >>),
       Pat("XK", << >>,    <<"S">>, << <<"E", "ES">>, <<"E", "EE">>, <<"S", "SE">> >>),
       Pat("XX", << >>,    << >>,   << <<"E">>, <<"E", "EE", "S", "ES">>, <<"S", "SE">> >>),
       Pat("KN", <<"S">>,  << >>,   << <<"E">>, <<"E", "EE", "SE">> >>),
       Pat("KK", <<"S">>,  <<"S">>, << <<"E", "ES", "SS">>, <<"E", "EE", "SE">> >>),
       Pat("KX", <<"S">>,  << >>,   << <<"E">>, <<"E", "EE", "SE", "S", "ES">> >>),
       Pat("IN", << >>,    << >>,   << <<"E", "S">>, <<"E", "EE", "SE">> >>),
       Pat("IK", << >>,    <<"S">>, << <<"E", "ES", "S", "SS">>, <<"E", "EE", "SE">> >>),
       Pat("IX", << >>,    << >>,   << <<"E", "S">>, <<"E", "EE", "SE", "S", "ES">> >>),
       Pat("XXfallback", <<"E">>, << >>, << <<"E", "EE", "S", "SE">>, <<"S", "ES">> >>) >>

(* --------------------------------------------------------- HandshakeState *)

\* DH::name, Cipher::name and Hash::name of the adapter types.
name(T) ==
    CASE T = "X25519" -> "25519"
      [] T = "Aes256Gcm" -> "AESGCM"
      [] T = "ChaCha20Poly1305" -> "ChaChaPoly"
      [] T = "Sha256" -> "SHA256"
      [] T = "Sha512" -> "SHA512"
      [] T = "Blake2b" -> "BLAKE2b"
      [] T = "Blake2s" -> "BLAKE2s"

DName == name("X25519")

as_bytes(str) == Whole(<<"str", str>>, Len(str))

\* get_name with the name of the DH left out.
get_name_nodh(pattern, cname, hname) ==
    "Noise_" \o pattern.name \o "_" \o cname \o "_" \o hname

\* HandshakeState::get_name
get_name(pattern, cname, hname) ==
    "Noise_" \o pattern.name \o "_" \o DName \o "_" \o cname \o "_" \o hname

\* One pre-message loop of HandshakeState::new: Some(symmetric), or None when
\* an unwrap or the token match panics.  `local` says the tokens are this
\* party's own.
RECURSIVE PreMessage(_, _, _, _, _)
PreMessage(sym, toks, local, s, rs) ==
    IF toks = << >> THEN Some(sym)
    ELSE IF toks[1] # "S" THEN None
    ELSE IF local
         THEN IF s = None THEN None
              ELSE PreMessage(mix_hash(sym, get_pubkey_vec(unwrap(s))), Tail(toks),
                              local, s, rs)
         ELSE IF rs = None THEN None
              ELSE PreMessage(mix_hash(sym, unwrap(rs)), Tail(toks), local, s, rs)

\* HandshakeState::new: Some(state), or None when the constructor panics.
new(pattern, is_initiator, prologue, s, e, rs, re, cname, hname) ==
    LET sym0 == mix_hash(SymmetricNew(hname, as_bytes(get_name(pattern, cname, hname))),
                         prologue)
        sym1 == PreMessage(sym0, pattern.pre_i, is_initiator, s, rs)
        sym2 == IF sym1 = None THEN None
                ELSE PreMessage(unwrap(sym1), pattern.pre_r, ~is_initiator, s, rs)
    IN IF sym2 = None THEN None
       ELSE Some([symmetric |-> unwrap(sym2), s |-> s, e |-> e, rs |-> rs, re |-> re,
                  is_initiator |-> is_initiator, pattern |-> pattern,
                  message_index |-> 0])

\* dh_keys with the responder combining the keys the initiator does.
dh_keys_norole(st, t) ==
    CASE t = "EE" -> <<st.e, st.re>>
      [] t = "ES" -> <<st.e, st.rs>>
      [] t = "SE" -> <<st.s, st.re>>
      [] t = "SS" -> <<st.s, st.rs>>

\* dh_keys with ES combining (e, rs) whatever the role.
dh_keys_esfixed(st, t) ==
    CASE t = "EE" -> <<st.e, st.re>>
      [] t = "ES" -> <<st.e, st.rs>>
      [] t = "SE" -> IF st.is_initiator THEN <<st.s, st.re>> ELSE <<st.e, st.rs>>
      [] t = "SS" -> <<st.s, st.rs>>

\* The private key and the public key a DH token combines: << Option, Option >>.
dh_keys(st, t) ==
    CASE t = "EE" -> <<st.e, st.re>>
      [] t = "ES" -> IF st.is_initiator THEN <<st.e, st.rs>> ELSE <<st.s, st.re>>
      [] t = "SE" -> IF st.is_initiator THEN <<st.s, st.re>> ELSE <<st.e, st.rs>>
      [] t = "SS" -> <<st.s, st.rs>>

\* perform_dh with the responder leaving the DH output out of the chaining key.
perform_dh_initonly(st, t) ==
    With(dh_keys(st, t),
         LAMBDA ks :
            IF ks[1] = None \/ ks[2] = None THEN [st |-> st, res |-> "panic"]
            ELSE IF ~st.is_initiator THEN [st |-> st, res |-> "ok"]
            ELSE [st |-> [st EXCEPT !.symmetric =
                            mix_key(st.symmetric, dh_vec(unwrap(ks[1]), unwrap(ks[2])))],
                  res |-> "ok"])

\* HandshakeState::perform_dh: [st, res], res = "panic" when an unwrap fails.
perform_dh(st, t) ==
    With(dh_keys(st, t),
         LAMBDA ks :
            IF ks[1] = None \/ ks[2] = None THEN [st |-> st, res |-> "panic"]
            ELSE [st |-> [st EXCEPT !.symmetric =
                            mix_key(st.symmetric, dh_vec(unwrap(ks[1]), unwrap(ks[2])))],
                  res |-> "ok"])

completed(st) == st.message_index = Len(st.pattern.msgs)

get_hash(st) == st.symmetric.h

get_ciphers(st) == split(st.symmetric)

\* turn_ok with the role forgotten: every party is taken for the initiator.
turn_ok_norole(st, write) ==
    st.message_index % 2 = (IF write THEN 0 ELSE 1)

\* The turn assertion of write_message (write = TRUE) or read_message.
turn_ok(st, write) ==
    st.message_index % 2 = (IF st.is_initiator = write THEN 0 ELSE 1)

\* WriteToken with the static key appended in the clear.
WriteToken_plainS(st, t) ==
    IF t = "E" THEN
        IF st.e = None THEN [st |-> st, out |-> << >>, res |-> "panic"]
        ELSE With(get_pubkey_vec(unwrap(st.e)),
                  LAMBDA e_pk : [st |-> [st EXCEPT !.symmetric = mix_hash(st.symmetric, e_pk)],
                                 out |-> e_pk, res |-> "ok"])
    ELSE IF t = "S" THEN
        IF st.s = None THEN [st |-> st, out |-> << >>, res |-> "panic"]
        ELSE With(get_pubkey_vec(unwrap(st.s)),
                  LAMBDA s_pk : [st |-> [st EXCEPT !.symmetric = mix_hash(st.symmetric, s_pk)],
                                 out |-> s_pk, res |-> "ok"])
    ELSE With(perform_dh(st, t),
              LAMBDA r : [st |-> r.st, out |-> << >>, res |-> r.res])

\* WriteToken with the ephemeral public key sent but not mixed into h.
WriteToken_nomixE(st, t) ==
    IF t = "E" THEN
        IF st.e = None THEN [st |-> st, out |-> << >>, res |-> "panic"]
        ELSE [st |-> st, out |-> get_pubkey_vec(unwrap(st.e)), res |-> "ok"]
    ELSE IF t = "S" THEN
        IF st.s = None THEN [st |-> st, out |-> << >>, res |-> "panic"]
        ELSE With(encrypt_and_hash_vec(st.symmetric, get_pubkey_vec(unwrap(st.s))),
                  LAMBDA r : [st |-> [st EXCEPT !.symmetric = r.sym],
                              out |-> r.out, res |-> "ok"])
    ELSE With(perform_dh(st, t),
              LAMBDA r : [st |-> r.st, out |-> << >>, res |-> r.res])

\* One token of write_message: [st, out, res], out the bytes it appends.
WriteToken(st, t) ==
    IF t = "E" THEN
        IF st.e = None THEN [st |-> st, out |-> << >>, res |-> "panic"]
        ELSE With(get_pubkey_vec(unwrap(st.e)),
                  LAMBDA e_pk : [st |-> [st EXCEPT !.symmetric = mix_hash(st.symmetric, e_pk)],
                                 out |-> e_pk, res |-> "ok"])
    ELSE IF t = "S" THEN
        IF st.s = None THEN [st |-> st, out |-> << >>, res |-> "panic"]
        ELSE With(encrypt_and_hash_vec(st.symmetric, get_pubkey_vec(unwrap(st.s))),
                  LAMBDA r : [st |-> [st EXCEPT !.symmetric = r.sym],
                              out |-> r.out, res |-> "ok"])
    ELSE With(perform_dh(st, t),
              LAMBDA r : [st |-> r.st, out |-> << >>, res |-> r.res])

\* The token loop of write_message: [st, out, res].
RECURSIVE WriteTokens(_, _, _)
WriteTokens(st, toks, out) ==
    IF toks = << >> THEN [st |-> st, out |-> out, res |-> "ok"]
    ELSE With(WriteToken(st, toks[1]),
              LAMBDA r : IF r.res # "ok" THEN [st |-> r.st, out |-> out, res |-> r.res]
                         ELSE WriteTokens(r.st, Tail(toks), Cat(out, r.out)))

\* write_message with message_index advanced before the turn assertion.
write_message_earlyinc(st, payload) ==
    IF ~turn_ok(st, TRUE) \/ st.message_index >= Len(st.pattern.msgs)
    THEN [st |-> [st EXCEPT !.message_index = st.message_index + 1],
          out |-> << >>, res |-> "panic"]
    ELSE With(WriteTokens([st EXCEPT !.message_index = st.message_index + 1],
                          st.pattern.msgs[st.message_index + 1], << >>),
              LAMBDA r :
                 IF r.res # "ok" THEN [st |-> r.st, out |-> << >>, res |-> r.res]
                 ELSE With(encrypt_and_hash_vec(r.st.symmetric, payload),
                           LAMBDA p : [st |-> [r.st EXCEPT !.symmetric = p.sym],
                                       out |-> Cat(r.out, p.out), res |-> "ok"]))

\* HandshakeState::write_message: [st, out, res]; out is the returned buffer
\* when res = "ok".
write_message(st, payload) ==
    IF ~turn_ok(st, TRUE) THEN [st |-> st, out |-> << >>, res |-> "panic"]
    ELSE IF st.message_index >= Len(st.pattern.msgs)
    THEN [st |-> st, out |-> << >>, res |-> "panic"]
    ELSE With(WriteTokens([st EXCEPT !.message_index = st.message_index + 1],
                          st.pattern.msgs[st.message_index + 1], << >>),
              LAMBDA r :
                 IF r.res # "ok" THEN [st |-> r.st, out |-> << >>, res |-> r.res]
                 ELSE With(encrypt_and_hash_vec(r.st.symmetric, payload),
                           LAMBDA p : [st |-> [r.st EXCEPT !.symmetric = p.sym],
                                       out |-> Cat(r.out, p.out), res |-> "ok"]))

\* s_len with the tag of a keyed cipher forgotten.
s_len_unkeyed(st) == DHLEN

\* The bytes an S token takes from the buffer.
s_len(st) == IF has_key(st.symmetric) THEN DHLEN + TAGLEN ELSE DHLEN

\* ReadToken keeping the bytes of a short E field as the remote ephemeral key.
ReadToken_partialE(st, t, data) ==
    IF t = "E" THEN
        IF BLen(data) < DHLEN
        THEN [st |-> [st EXCEPT !.re = Some(data)], data |-> << >>, res |-> "TooShort"]
        ELSE With(Take(data, DHLEN),
                  LAMBDA re : [st |-> [st EXCEPT !.re = Some(re),
                                                 !.symmetric = mix_hash(st.symmetric, re)],
                               data |-> Drop(data, DHLEN), res |-> "ok"])
    ELSE IF t = "S" THEN
        With(s_len(st),
             LAMBDA n :
                IF BLen(data) < n THEN [st |-> st, data |-> data, res |-> "TooShort"]
                ELSE With(decrypt_and_hash_vec(st.symmetric, Take(data, n)),
                          LAMBDA r :
                             IF r.out = None
                             THEN [st |-> st, data |-> Drop(data, n),
                                   res |-> "DecryptionFailed"]
                             ELSE [st |-> [st EXCEPT !.rs = r.out, !.symmetric = r.sym],
                                   data |-> Drop(data, n), res |-> "ok"]))
    ELSE With(perform_dh(st, t),
              LAMBDA r : [st |-> r.st, data |-> data, res |-> r.res])

\* ReadToken keeping a remote ephemeral key the state already holds.
ReadToken_keepre(st, t, data) ==
    IF t = "E" THEN
        IF BLen(data) < DHLEN THEN [st |-> st, data |-> data, res |-> "TooShort"]
        ELSE With(Take(data, DHLEN),
                  LAMBDA re : [st |-> [st EXCEPT !.re = IF st.re = None THEN Some(re) ELSE st.re,
                                                 !.symmetric = mix_hash(st.symmetric, re)],
                               data |-> Drop(data, DHLEN), res |-> "ok"])
    ELSE IF t = "S" THEN
        With(s_len(st),
             LAMBDA n :
                IF BLen(data) < n THEN [st |-> st, data |-> data, res |-> "TooShort"]
                ELSE With(decrypt_and_hash_vec(st.symmetric, Take(data, n)),
                          LAMBDA r :
                             IF r.out = None
                             THEN [st |-> st, data |-> Drop(data, n),
                                   res |-> "DecryptionFailed"]
                             ELSE [st |-> [st EXCEPT !.rs = r.out, !.symmetric = r.sym],
                                   data |-> Drop(data, n), res |-> "ok"]))
    ELSE With(perform_dh(st, t),
              LAMBDA r : [st |-> r.st, data |-> data, res |-> r.res])

\* One token of read_message: [st, data, res], data what is left of the buffer.
ReadToken(st, t, data) ==
    IF t = "E" THEN
        IF BLen(data) < DHLEN THEN [st |-> st, data |-> data, res |-> "TooShort"]
        ELSE With(Take(data, DHLEN),
                  LAMBDA re : [st |-> [st EXCEPT !.re = Some(re),
                                                 !.symmetric = mix_hash(st.symmetric, re)],
                               data |-> Drop(data, DHLEN), res |-> "ok"])
    ELSE IF t = "S" THEN
        With(s_len(st),
             LAMBDA n :
                IF BLen(data) < n THEN [st |-> st, data |-> data, res |-> "TooShort"]
                ELSE With(decrypt_and_hash_vec(st.symmetric, Take(data, n)),
                          LAMBDA r :
                             IF r.out = None
                             THEN [st |-> st, data |-> Drop(data, n),
                                   res |-> "DecryptionFailed"]
                             ELSE [st |-> [st EXCEPT !.rs = r.out, !.symmetric = r.sym],
                                   data |-> Drop(data, n), res |-> "ok"]))
    ELSE With(perform_dh(st, t),
              LAMBDA r : [st |-> r.st, data |-> data, res |-> r.res])

\* The token loop of read_message: [st, data, res].
RECURSIVE ReadTokens(_, _, _)
ReadTokens(st, toks, data) ==
    IF toks = << >> THEN [st |-> st, data |-> data, res |-> "ok"]
    ELSE With(ReadToken(st, toks[1], data),
              LAMBDA r : IF r.res # "ok" THEN r
                         ELSE ReadTokens(r.st, Tail(toks), r.data))

\* read_message with the payload decrypted but not mixed into h.
read_message_nohash(st, data) ==
    IF ~turn_ok(st, FALSE) THEN [st |-> st, out |-> None, res |-> "panic"]
    ELSE IF st.message_index >= Len(st.pattern.msgs)
    THEN [st |-> st, out |-> None, res |-> "panic"]
    ELSE With(ReadTokens([st EXCEPT !.message_index = st.message_index + 1],
                         st.pattern.msgs[st.message_index + 1], data),
              LAMBDA r :
                 IF r.res # "ok" THEN [st |-> r.st, out |-> None, res |-> r.res]
                 ELSE With(DecryptWithAd(r.st.symmetric.cs, r.st.symmetric.h, r.data),
                           LAMBDA p :
                              IF p.out = None
                              THEN [st |-> r.st, out |-> None, res |-> "DecryptionFailed"]
                              ELSE [st |-> [r.st EXCEPT !.symmetric.cs = p.cs],
                                    out |-> p.out, res |-> "ok"]))

\* HandshakeState::read_message: [st, out, res]; out is Some(payload) when
\* res = "ok".
read_message(st, data) ==
    IF ~turn_ok(st, FALSE) THEN [st |-> st, out |-> None, res |-> "panic"]
    ELSE IF st.message_index >= Len(st.pattern.msgs)
    THEN [st |-> st, out |-> None, res |-> "panic"]
    ELSE With(ReadTokens([st EXCEPT !.message_index = st.message_index + 1],
                         st.pattern.msgs[st.message_index + 1], data),
              LAMBDA r :
                 IF r.res # "ok" THEN [st |-> r.st, out |-> None, res |-> r.res]
                 ELSE With(decrypt_and_hash_vec(r.st.symmetric, r.data),
                           LAMBDA p :
                              IF p.out = None
                              THEN [st |-> r.st, out |-> None, res |-> "DecryptionFailed"]
                              ELSE [st |-> [r.st EXCEPT !.symmetric = p.sym],
                                    out |-> p.out, res |-> "ok"]))

(* ------------------------------------------------------------ the system *)

VARIABLES
    hs,      \* party -> Option<HandshakeState>: None when `new` panicked
    status,  \* party -> "ready" | "panicked"
    wire,    \* party -> Option<[bytes, payload, sym, pre]>: the last message it
             \* wrote, and its symmetric state and HandshakeState before it
    last,    \* the last call: [who, op, res, out, arg]; at first, the call of `new`
    nsplit,  \* party -> the number of get_ciphers calls it made
    taken,   \* party -> Option<the pair get_ciphers last returned>
    faults,  \* the number of messages the channel cut or corrupted
    failed,  \* party -> read_message has returned an error on its state
    clean    \* every call so far succeeded and every read got the peer's bytes

vars == <<hs, status, wire, last, nsplit, taken, faults, failed, clean>>

Parties == {"I", "R"}

Peer(p) == IF p = "I" THEN "R" ELSE "I"

\* The cipher, the hash and the prologue of a handshake.
Setups == { <<name("ChaCha20Poly1305"), name("Sha256"), Lit("prologue", 0)>>,
            <<name("Aes256Gcm"), name("Sha512"), Lit("prologue", 1)>> }

Payload(len) == Lit("payload", len)

\* The key pairs a party may hold.
StaticKey(p) == Some("s" \o p)
EphemeralKey(p) == Some("e" \o p)

H(p) == unwrap(hs[p])

WireBytes(p) == IF wire[p] = None THEN << >> ELSE unwrap(wire[p]).bytes

\* The lengths a message in flight is cut to.
CutPoints(bs) ==
    IF bs = << >> THEN {0}
    ELSE {n \in 0..(BLen(bs) - 1) : n % TAGLEN \in {0, TAGLEN - 1}}

\* The bytes of a message in flight that are corrupted.
FlipPoints(bs) == {i \in 1..BLen(bs) : i % TAGLEN = 1}

\* The remote static key `new` is given: the peer's, when the pattern has it
\* as a pre-message.
KnownRs(pattern, p, has_s) ==
    IF "S" \in {(IF p = "I" THEN pattern.pre_r ELSE pattern.pre_i)[j] :
                   j \in 1..Len(IF p = "I" THEN pattern.pre_r ELSE pattern.pre_i)}
       /\ has_s[Peer(p)]
    THEN Some(get_pubkey_vec(unwrap(StaticKey(Peer(p)))))
    ELSE None

\* The remote ephemeral key `new` is given: the initiator's, when the pattern
\* has it as a pre-message.
KnownRe(pattern, p, has_e) ==
    IF p = "R" /\ "E" \in {pattern.pre_i[j] : j \in 1..Len(pattern.pre_i)} /\ has_e["I"]
    THEN Some(get_pubkey_vec(unwrap(EphemeralKey("I"))))
    ELSE None

\* Which keys the parties hold: all of them, or all but one.
KeyChoices ==
    {has \in [{"sI", "eI", "sR", "eR"} -> BOOLEAN] :
        Cardinality({x \in DOMAIN has : ~has[x]}) <= 1}

\* A remote key the application supplies although the pattern sends that key
\* in a message: left over from an earlier session.
StaleKey == get_pubkey_vec("old")

\* Whether `new` is given such keys: tried on XX, whose messages carry both
\* parties' ephemeral and static keys.
StaleChoices(pattern) == IF pattern.name = "XX" THEN BOOLEAN ELSE {FALSE}

Init ==
    \E i \in 1..Len(Patterns), setup \in Setups, has \in KeyChoices :
      \E has_s \in {[p \in Parties |-> has["s" \o p]]},
         has_e \in {[p \in Parties |-> has["e" \o p]]},
         stale \in StaleChoices(Patterns[i]) :
        /\ hs = [p \in Parties |->
                   new(Patterns[i], p = "I", setup[3],
                       IF has_s[p] THEN StaticKey(p) ELSE None,
                       IF has_e[p] THEN EphemeralKey(p) ELSE None,
                       IF stale THEN Some(StaleKey)
                       ELSE KnownRs(Patterns[i], p, has_s),
                       IF stale THEN Some(StaleKey)
                       ELSE KnownRe(Patterns[i], p, has_e),
                       setup[1], setup[2])]
        /\ status = [p \in Parties |-> IF hs[p] = None THEN "panicked" ELSE "ready"]
        /\ wire = [p \in Parties |-> None]
        /\ last = [who |-> "I", op |-> "new", res |-> "ok", out |-> None,
                   arg |-> [pattern |-> Patterns[i], setup |-> setup, has |-> has,
                            stale |-> stale]]
        /\ nsplit = [p \in Parties |-> 0]
        /\ taken = [p \in Parties |-> None]
        /\ faults = 0
        /\ failed = [p \in Parties |-> FALSE]
        /\ clean = (\A p \in Parties : hs[p] # None)

\* The errors read_message returns.
ReadErrors == {"TooShort", "DecryptionFailed"}

\* The effect of a write_message or read_message call whose result is r.
Called(p, op, r, out, arg) ==
    /\ hs' = [hs EXCEPT ![p] = Some(r.st)]
    /\ status' = [status EXCEPT ![p] = IF r.res = "panic" THEN "panicked" ELSE "ready"]
    /\ last' = [who |-> p, op |-> op, res |-> r.res, out |-> out, arg |-> arg]

\* p calls write_message with a payload of len bytes.
Write(p, len) ==
    /\ status[p] = "ready"
    /\ \E r \in {write_message(H(p), Payload(len))} :
          /\ Called(p, "write", r, IF r.res = "ok" THEN Some(r.out) ELSE None,
                    Payload(len))
          /\ wire' = IF r.res = "ok"
                     THEN [wire EXCEPT ![p] = Some([bytes |-> r.out,
                                                    payload |-> Payload(len),
                                                    sym |-> H(p).symmetric,
                                                    pre |-> H(p)])]
                     ELSE wire
          /\ clean' = (clean /\ r.res = "ok")
    /\ UNCHANGED <<nsplit, taken, faults, failed>>

\* q calls read_message(data); honest says data is the peer's message.
Read(q, data, honest) ==
    /\ status[q] = "ready"
    /\ \E r \in {read_message(H(q), data)} :
          /\ Called(q, "read", r, r.out, data)
          /\ clean' = (clean /\ honest /\ r.res = "ok")
          /\ failed' = [failed EXCEPT ![q] = @ \/ r.res \in ReadErrors]
    /\ UNCHANGED <<wire, nsplit, taken>>

\* q reads the last message its peer wrote.
Deliver(q) ==
    /\ wire[Peer(q)] # None
    /\ Read(q, WireBytes(Peer(q)), TRUE)
    /\ UNCHANGED faults

\* q reads the first n bytes of it (nothing, when the peer wrote nothing).
Truncate(q, n) ==
    /\ faults < MaxFaults
    /\ Read(q, Take(WireBytes(Peer(q)), n), FALSE)
    /\ faults' = faults + 1

\* q reads it with byte i changed.
Tamper(q, i) ==
    /\ faults < MaxFaults
    /\ Read(q, Corrupt(WireBytes(Peer(q)), i), FALSE)
    /\ faults' = faults + 1

\* p calls get_ciphers.
Split(p) ==
    /\ status[p] = "ready"
    /\ nsplit[p] < MaxSplits
    /\ nsplit' = [nsplit EXCEPT ![p] = nsplit[p] + 1]
    /\ taken' = [taken EXCEPT ![p] = Some(get_ciphers(H(p)))]
    /\ last' = [who |-> p, op |-> "split", res |-> "ok", out |-> None, arg |-> << >>]
    /\ UNCHANGED <<hs, status, wire, faults, failed, clean>>

\* The two parties over a channel that delivers, cuts or corrupts messages.
Next ==
    \/ \E p \in Parties, len \in 0..MaxPayload : Write(p, len)
    \/ \E q \in Parties : Deliver(q)
    \/ \E q \in Parties : \E n \in CutPoints(WireBytes(Peer(q))) : Truncate(q, n)
    \/ \E q \in Parties : \E i \in FlipPoints(WireBytes(Peer(q))) : Tamper(q, i)

Spec == Init /\ [][Next]_vars

\* The two parties over a reliable channel, each taking its transport ciphers
\* whenever it likes.
NextSplit ==
    \/ \E p \in Parties, len \in 0..MaxPayload : Write(p, len)
    \/ \E q \in Parties : Deliver(q)
    \/ \E p \in Parties : Split(p)

SpecSplit == Init /\ [][NextSplit]_vars

\* q has a message of its peer to read.
Pending(q) ==
    /\ \A p \in Parties : status[p] = "ready"
    /\ H(Peer(q)).message_index = H(q).message_index + 1

\* p writes when it is its turn.
TurnWrite(p, len) ==
    /\ \A q \in Parties : status[q] = "ready" /\ ~Pending(q)
    /\ turn_ok(H(p), TRUE)
    /\ ~completed(H(p))
    /\ Write(p, len)

\* q reads the message its peer wrote.
TurnRead(q) ==
    /\ Pending(q)
    /\ Deliver(q)

\* The two parties taking turns over a reliable channel, until they stop.
NextTurns ==
    \/ \E p \in Parties, len \in 0..MaxPayload : TurnWrite(p, len)
    \/ \E q \in Parties : TurnRead(q)

SpecTurns == Init /\ [][NextTurns]_vars /\ WF_vars(NextTurns)

(* ------------------------------------------------------------- the claims *)

Built(p) == hs[p] # None

\* This step is a write_message or read_message call of p.
CallBy(p) == hs'[p] # hs[p] \/ status'[p] # status[p]

Finished(p) == Built(p) /\ completed(H(p))

\* C1: when all messages of the pattern were exchanged untampered and every
\* call succeeded, both parties hold the same transcript hash and get_ciphers
\* gives both the same ordered pair of cipher states.
C1_SameHashAndCiphers ==
    (clean /\ \A p \in Parties : Finished(p)) =>
        /\ get_hash(H("I")) = get_hash(H("R"))
        /\ get_ciphers(H("I")) = get_ciphers(H("R"))
        /\ get_ciphers(H("I"))[1] # get_ciphers(H("I"))[2]

\* A clean handshake of three messages, the last one carrying a payload, done.
C1_Witness ==
    /\ clean /\ \A p \in Parties : Finished(p)
    /\ Len(H("I").pattern.msgs) = 3
    /\ last.op = "read" /\ last.out = Some(Payload(1))
    /\ H("R").pattern.pre_r # << >>

\* Whether a call at message_index idx is in turn: the initiator writes the
\* even messages and reads the odd ones, the responder the opposite.
InTurn(p, op, idx) == (idx % 2 = 0) = ((p = "I") = (op = "write"))

\* C2: a call that does not panic was made in turn, and a call made out of
\* turn panics and leaves the HandshakeState as it was.
C2_TurnAssertion ==
    [][\A p \in Parties :
          (Built(p) /\ CallBy(p)) =>
             /\ last'.who = p
             /\ last'.res # "panic" => InTurn(p, last'.op, H(p).message_index)
             /\ ~InTurn(p, last'.op, H(p).message_index) =>
                   last'.res = "panic" /\ hs'[p] = hs[p]]_vars

\* The responder has written out of turn, after a message went both ways.
C2_Witness ==
    /\ last.who = "R" /\ last.op = "write" /\ last.res = "panic"
    /\ H("R").message_index = 2 /\ Len(H("R").pattern.msgs) = 3
    /\ H("R").e # None /\ H("R").s # None

\* C3: read_message on the bytes write_message(p) produced, by a party whose
\* h, cipher key and nonce are those the writer had, returns exactly p.
C3_ReadInvertsWrite ==
    [][\A q \in Parties :
          ( /\ Built(q) /\ CallBy(q) /\ last'.op = "read" /\ faults' = faults
            /\ wire[Peer(q)] # None
            /\ InTurn(q, "read", H(q).message_index)
            /\ H(q).message_index < Len(H(q).pattern.msgs)
            /\ H(q).symmetric.h = unwrap(wire[Peer(q)]).sym.h
            /\ H(q).symmetric.cs = unwrap(wire[Peer(q)]).sym.cs )
          => /\ last'.res = "ok"
             /\ last'.out = Some(unwrap(wire[Peer(q)]).payload)]_vars

\* A payload came out of a message with an encrypted static key.
C3_Witness ==
    /\ last.op = "read" /\ last.res = "ok" /\ last.out = Some(Payload(1))
    /\ H(last.who).pattern.name = "IX" /\ H(last.who).message_index = 2
    /\ has_key(H(last.who).symmetric)

\* C4 (as claimed): a read_message call that returns an error leaves
\* message_index, re, rs, h and the cipher key and nonce as they were.
C4_ErrorLeavesStateUnchanged ==
    [][\A q \in Parties :
          (Built(q) /\ CallBy(q) /\ last'.op = "read" /\ last'.res \in ReadErrors) =>
             /\ H(q)'.message_index = H(q).message_index
             /\ H(q)'.re = H(q).re
             /\ H(q)'.rs = H(q).rs
             /\ H(q)'.symmetric.h = H(q).symmetric.h
             /\ H(q)'.symmetric.cs = H(q).symmetric.cs]_vars

\* C5 (as claimed): a HandshakeState on which read_message has returned an
\* error never reports completed().
C5_FailedNeverCompleted == \A p \in Parties : failed[p] => ~Finished(p)

\* C6 (as claimed): get_ciphers is taken only from a finished handshake, once,
\* and no write_message or read_message call follows it.
C6_SplitConsumes ==
    [][\A p \in Parties :
          Built(p) =>
             /\ nsplit'[p] > nsplit[p] => completed(H(p)) /\ nsplit[p] = 0
             /\ nsplit[p] > 0 => ~CallBy(p)]_vars

\* C7: message_index stays within 0..n, n the number of message patterns;
\* completed() says message_index = n; and a write_message or read_message
\* call made at message_index = n panics and leaves message_index at n.
C7_IndexInRange ==
    /\ [](\A p \in Parties :
            Built(p) =>
               /\ H(p).message_index \in 0..Len(H(p).pattern.msgs)
               /\ completed(H(p)) <=> H(p).message_index = Len(H(p).pattern.msgs))
    /\ [][\A p \in Parties :
            (Built(p) /\ CallBy(p) /\ H(p).message_index = Len(H(p).pattern.msgs)) =>
               /\ last'.res = "panic"
               /\ H(p)'.message_index = H(p).message_index]_vars

\* A party that holds every key has called again after its last message and
\* panicked, message_index still n.
C7_Witness ==
    \E p \in Parties :
        /\ Built(p) /\ status[p] = "panicked" /\ last.who = p /\ last.res = "panic"
        /\ H(p).message_index = Len(H(p).pattern.msgs)
        /\ H(p).e # None /\ H(p).s # None /\ H(p).re # None /\ H(p).rs # None

\* The tokens of message i (1-based) of a party's pattern, and whether the
\* party writes that message.
MsgTokens(st, i) == {st.pattern.msgs[i][j] : j \in 1..Len(st.pattern.msgs[i])}
Writes(st, i) == (i % 2 = 1) = st.is_initiator

\* The party's pattern has it write an E token; it has it use its static key.
NeedsE(st) ==
    \E i \in 1..Len(st.pattern.msgs) : Writes(st, i) /\ "E" \in MsgTokens(st, i)
NeedsS(st) ==
    \E i \in 1..Len(st.pattern.msgs) :
        \/ Writes(st, i) /\ "S" \in MsgTokens(st, i)
        \/ "SS" \in MsgTokens(st, i)
        \/ (IF st.is_initiator THEN "SE" ELSE "ES") \in MsgTokens(st, i)

\* Both parties were constructed and hold the keys their pattern uses.
KeysPresent ==
    \A p \in Parties :
        /\ Built(p)
        /\ NeedsE(H(p)) => H(p).e # None
        /\ NeedsS(H(p)) => H(p).s # None

BothFinished == \A p \in Parties : Finished(p)

\* C8: when the parties hold the keys of the pattern and take turns over a
\* reliable channel, every call succeeds and advances the caller's
\* message_index by exactly 1, and both parties reach completed().
C8_TurnsComplete ==
    /\ KeysPresent ~> BothFinished
    /\ [][KeysPresent =>
            \E p \in Parties :
               /\ last'.who = p /\ last'.res = "ok"
               /\ H(p)'.message_index = H(p).message_index + 1
               /\ H(p)'.message_index <= Len(H(p).pattern.msgs)
               /\ hs'[Peer(p)] = hs[Peer(p)]]_vars

\* Three messages went from turn to turn and both parties are done.
C8_Witness ==
    /\ KeysPresent /\ BothFinished
    /\ H("I").message_index = 3 /\ H("R").message_index = 3
    /\ last.who = "R" /\ last.op = "read" /\ last.res = "ok"

\* C9 (as claimed): write_message of a message that starts with an E token
\* succeeds whether or not an ephemeral key was given to `new`: a key given is
\* kept, a missing one is generated, and its public key starts the output.
C9_GeneratesEphemeral ==
    [][\A p \in Parties :
          ( /\ Built(p) /\ CallBy(p) /\ last'.op = "write"
            /\ InTurn(p, "write", H(p).message_index)
            /\ H(p).message_index < Len(H(p).pattern.msgs)
            /\ H(p).pattern.msgs[H(p).message_index + 1][1] = "E"
            /\ NeedsS(H(p)) => H(p).s # None )
          => /\ last'.res = "ok"
             /\ H(p)'.e # None
             /\ H(p).e # None => H(p)'.e = H(p).e
             /\ Take(unwrap(last'.out), DHLEN) = get_pubkey_vec(unwrap(H(p)'.e))]_vars

DHTokens == {"EE", "ES", "SE", "SS"}

\* The bytes the tokens toks put on the wire, the cipher keyed or not before
\* them; a DH token keys the cipher.
RECURSIVE FieldsLen(_, _)
FieldsLen(toks, keyed) ==
    IF toks = << >> THEN 0
    ELSE IF toks[1] = "E" THEN DHLEN + FieldsLen(Tail(toks), keyed)
    ELSE IF toks[1] = "S"
         THEN DHLEN + (IF keyed THEN TAGLEN ELSE 0) + FieldsLen(Tail(toks), keyed)
    ELSE FieldsLen(Tail(toks), TRUE)

KeyedAfter(toks, keyed) == keyed \/ \E j \in 1..Len(toks) : toks[j] \in DHTokens

\* C10: the buffer write_message returns is as long as the fields of the
\* message's tokens, plus the payload, plus a tag when the cipher is keyed
\* after the tokens.
C10_MessageLength ==
    (last.op = "write" /\ last.res = "ok") =>
        LET w == unwrap(wire[last.who])
            toks == H(last.who).pattern.msgs[H(last.who).message_index]
        IN /\ last.out = Some(w.bytes)
           /\ BLen(w.bytes) =
                FieldsLen(toks, has_key(w.sym)) + BLen(w.payload)
                + (IF KeyedAfter(toks, has_key(w.sym)) THEN TAGLEN ELSE 0)

\* A message with an encrypted static key and a payload of one byte was written.
C10_Witness ==
    /\ last.op = "write" /\ last.res = "ok"
    /\ H(last.who).pattern.name = "XX" /\ H(last.who).message_index = 2
    /\ BLen(unwrap(last.out)) = 2 * DHLEN + TAGLEN + 1 + TAGLEN

\* The E and S tokens of toks whose field does not fit in a buffer of len bytes.
ShortFields(toks, keyed, len) ==
    {k \in 1..Len(toks) :
        toks[k] \in {"E", "S"} /\ len < FieldsLen(SubSeq(toks, 1, k), keyed)}

\* This step is an in-turn read_message call of q on a message of its pattern.
ReadCall(q) ==
    /\ Built(q) /\ CallBy(q) /\ last'.op = "read"
    /\ InTurn(q, "read", H(q).message_index)
    /\ H(q).message_index < Len(H(q).pattern.msgs)

\* q holds the symmetric state its peer had when it wrote its last message.
InStep(q) ==
    /\ wire[Peer(q)] # None
    /\ H(q).symmetric.h = unwrap(wire[Peer(q)]).sym.h
    /\ H(q).symmetric.cs = unwrap(wire[Peer(q)]).sym.cs

\* C11: read_message returns TooShort exactly when the buffer ends inside the
\* field of an E token (DHLEN bytes) or of an S token (DHLEN bytes, DHLEN + 16
\* when the cipher is keyed) that it reaches; the key that field would set
\* (re for E, rs for S) is then left as it was.
C11_TooShortExactly ==
    [][\A q \in Parties :
          ReadCall(q) =>
             LET toks == H(q).pattern.msgs[H(q).message_index + 1]
                 short == ShortFields(toks, has_key(H(q).symmetric), BLen(last'.arg))
                 first == CHOOSE k \in short : \A j \in short : k <= j
             IN /\ last'.res = "TooShort" => short # {}
                /\ last'.res = "ok" => short = {}
                /\ 1 \in short => last'.res = "TooShort"
                /\ ( /\ short # {} /\ InStep(q)
                     /\ last'.arg = Take(WireBytes(Peer(q)), BLen(last'.arg)) )
                   => last'.res \in {"TooShort", "panic"}
                /\ last'.res = "TooShort" =>
                      /\ toks[first] = "E" => H(q)'.re = H(q).re
                      /\ toks[first] = "S" => H(q)'.rs = H(q).rs]_vars

\* The initiator read the second message of XX cut inside the tag of the
\* encrypted static key: the E field was taken, the S field was short.
C11_Witness ==
    /\ last.op = "read" /\ last.res = "TooShort" /\ last.who = "I"
    /\ H("I").pattern.name = "XX" /\ H("I").message_index = 2
    /\ BLen(last.arg) = 2 * DHLEN + TAGLEN - 1
    /\ H("I").re # None /\ H("I").rs = None

\* The bytes (1-based) of a message with tokens toks that hold the encrypted
\* static key of token k, and those that hold the encrypted payload.
SFieldBytes(toks, keyed, k) ==
    (FieldsLen(SubSeq(toks, 1, k - 1), keyed) + 1)..FieldsLen(SubSeq(toks, 1, k), keyed)
PayloadBytes(toks, keyed, len) == (FieldsLen(toks, keyed) + 1)..len

\* C12: when the cipher is keyed and one byte of the encrypted static key or
\* of the encrypted payload of the peer's message was changed, read_message
\* returns DecryptionFailed; when the byte is in the static key, rs is left as
\* it was and the state is the one the tokens before S produced.
C12_TamperDetected ==
    [][\A q \in Parties :
          (ReadCall(q) /\ InStep(q)) =>
             LET w == WireBytes(Peer(q))
                 st == H(q)
                 toks == st.pattern.msgs[st.message_index + 1]
                 keyed == has_key(st.symmetric)
             IN \A i \in 1..BLen(w) :
                  last'.arg = Corrupt(w, i) =>
                     /\ \A k \in 1..Len(toks) :
                           ( /\ toks[k] = "S" /\ i \in SFieldBytes(toks, keyed, k)
                             /\ KeyedAfter(SubSeq(toks, 1, k - 1), keyed) )
                           => /\ last'.res = "DecryptionFailed"
                              /\ H(q)'.rs = st.rs
                              /\ H(q)' = ReadTokens(
                                            [st EXCEPT !.message_index = st.message_index + 1],
                                            SubSeq(toks, 1, k - 1), last'.arg).st
                     /\ (i \in PayloadBytes(toks, keyed, BLen(w)) /\ KeyedAfter(toks, keyed))
                           => last'.res = "DecryptionFailed"]_vars

\* The initiator read the second message of XX with the first byte of the
\* encrypted static key changed.
C12_Witness ==
    /\ last.op = "read" /\ last.res = "DecryptionFailed" /\ last.who = "I"
    /\ H("I").pattern.name = "XX" /\ H("I").message_index = 2
    /\ last.arg = Corrupt(WireBytes("R"), DHLEN + 1)
    /\ H("I").re # None /\ H("I").rs = None

\* The shared secret perform_dh passes to mix_key for token t.
Secret(st, t) == dh_vec(unwrap(dh_keys(st, t)[1]), unwrap(dh_keys(st, t)[2]))

\* p holds its own key pairs and the public keys of its peer's.
HoldsAll(p) ==
    /\ H(p).s # None /\ H(p).e # None
    /\ H(Peer(p)).s # None /\ H(Peer(p)).e # None
    /\ H(p).rs = Some(get_pubkey_vec(unwrap(H(Peer(p)).s)))
    /\ H(p).re = Some(get_pubkey_vec(unwrap(H(Peer(p)).e)))

\* C13: EE combines (e, re); ES combines (e, rs) for the initiator and (s, re)
\* for the responder; SE combines (s, re) for the initiator and (e, rs) for the
\* responder; SS combines (s, rs).  So the two parties compute the same shared
\* secret for every DH token, and after every message of an untampered
\* handshake they hold the same chaining key and cipher key.
C13_ComplementaryKeys ==
    /\ \A p \in Parties :
          Built(p) =>
             LET st == H(p)
                 i == st.is_initiator
             IN /\ dh_keys(st, "EE") = <<st.e, st.re>>
                /\ dh_keys(st, "ES") = IF i THEN <<st.e, st.rs>> ELSE <<st.s, st.re>>
                /\ dh_keys(st, "SE") = IF i THEN <<st.s, st.re>> ELSE <<st.e, st.rs>>
                /\ dh_keys(st, "SS") = <<st.s, st.rs>>
    /\ ((\A p \in Parties : Built(p)) /\ (\A p \in Parties : HoldsAll(p))) =>
          \A t \in DHTokens : Secret(H("I"), t) = Secret(H("R"), t)
    /\ ( /\ clean /\ \A p \in Parties : Built(p)
         /\ H("I").message_index = H("R").message_index ) =>
          /\ H("I").symmetric.ck = H("R").symmetric.ck
          /\ H("I").symmetric.cs = H("R").symmetric.cs

\* XX is done untampered: each party holds both its key pairs and both public
\* keys of its peer, and ES and SE were both mixed.
C13_Witness ==
    /\ clean /\ BothFinished
    /\ H("I").pattern.name = "XX"
    /\ \A p \in Parties : HoldsAll(p)
    /\ Secret(H("I"), "ES") # Secret(H("I"), "SE")

\* This step is an in-turn call of p on message i of its pattern in which no
\* E or S token lacks the key it sends.
DHCall(p) ==
    /\ Built(p) /\ CallBy(p)
    /\ InTurn(p, last'.op, H(p).message_index)
    /\ H(p).message_index < Len(H(p).pattern.msgs)
    /\ last'.op = "write" =>
          /\ "E" \in MsgTokens(H(p), H(p).message_index + 1) => H(p).e # None
          /\ "S" \in MsgTokens(H(p), H(p).message_index + 1) => H(p).s # None

\* C14 (as claimed): `new` and the DH tokens report a missing key to the
\* caller: the constructor does not abort on a pre-message key that is absent,
\* and a call whose DH token lacks a key returns instead of panicking.
C14_MissingKeyReported ==
    /\ [](\A p \in Parties : Built(p))
    /\ [][\A p \in Parties : DHCall(p) => last'.res # "panic"]_vars

\* The party a pre-message token sequence belongs to, and the key pair of that
\* party a token names.
PreOwner(initiator_side) == IF initiator_side THEN "I" ELSE "R"
PreKey(tok, owner) == IF tok = "E" THEN EphemeralKey(owner) ELSE StaticKey(owner)

\* h after mixing the public keys of the pre-message tokens toks of `owner`.
RECURSIVE MixPre(_, _, _)
MixPre(sym, toks, owner) ==
    IF toks = << >> THEN sym
    ELSE MixPre(mix_hash(sym, get_pubkey_vec(unwrap(PreKey(toks[1], owner)))),
                Tail(toks), owner)

\* The keys the pre-messages of `pattern` name are held (and so known to the peer).
PreKeysHeld(pattern, has) ==
    /\ \A j \in 1..Len(pattern.pre_i) :
          has[(IF pattern.pre_i[j] = "E" THEN "e" ELSE "s") \o "I"]
    /\ \A j \in 1..Len(pattern.pre_r) :
          has[(IF pattern.pre_r[j] = "E" THEN "e" ELSE "s") \o "R"]

\* C15 (as claimed): `new` accepts E and S pre-message tokens: with the keys
\* they name at hand it returns a state whose h is the protocol name's h with
\* the prologue, then the initiator's pre-message public keys, then the
\* responder's mixed in.
C15_PreMessageKeys ==
    (last.op = "new" /\ PreKeysHeld(last.arg.pattern, last.arg.has)) =>
        \A p \in Parties :
           /\ Built(p)
           /\ get_hash(H(p)) =
                 MixPre(MixPre(mix_hash(SymmetricNew(last.arg.setup[2],
                                           as_bytes(get_name(last.arg.pattern,
                                                             last.arg.setup[1],
                                                             last.arg.setup[2]))),
                                        last.arg.setup[3]),
                               last.arg.pattern.pre_i, PreOwner(TRUE)),
                        last.arg.pattern.pre_r, PreOwner(FALSE)).h

\* The adapter types.
CipherTypes == {"ChaCha20Poly1305", "Aes256Gcm"}
HashTypes == {"Sha256", "Sha512", "Blake2s", "Blake2b"}

\* C16: get_name is "Noise_" + pattern name + "_" + DH name + "_" + cipher
\* name + "_" + hash name, the names being 25519, ChaChaPoly, AESGCM, SHA256,
\* SHA512, BLAKE2s and BLAKE2b; and the symmetric state `new` builds starts
\* from that string.
C16_ProtocolName ==
    /\ name("X25519") = "25519"
    /\ {name(c) : c \in CipherTypes} = {"ChaChaPoly", "AESGCM"}
    /\ name("ChaCha20Poly1305") = "ChaChaPoly"
    /\ {name(h) : h \in HashTypes} = {"SHA256", "SHA512", "BLAKE2s", "BLAKE2b"}
    /\ name("Sha256") = "SHA256" /\ name("Sha512") = "SHA512"
    /\ name("Blake2s") = "BLAKE2s"
    /\ \A i \in 1..Len(Patterns), c \in CipherTypes, h \in HashTypes :
          get_name(Patterns[i], name(c), name(h)) =
             "Noise_" \o Patterns[i].name \o "_25519_" \o name(c) \o "_" \o name(h)
    /\ last.op = "new" =>
          \A p \in Parties :
             Built(p) =>
                H(p).symmetric.ck =
                   SymmetricNew(last.arg.setup[2],
                                as_bytes("Noise_" \o last.arg.pattern.name \o "_25519_"
                                         \o last.arg.setup[1] \o "_"
                                         \o last.arg.setup[2])).ck

\* IK was set up with ChaCha20Poly1305 and Sha256.
C16_Witness ==
    /\ last.op = "new" /\ Built("I") /\ Built("R")
    /\ H("I").symmetric.ck = as_bytes("Noise_IK_25519_ChaChaPoly_SHA256")
    /\ get_name(H("I").pattern, name("Aes256Gcm"), name("Blake2b"))
          = "Noise_IK_25519_AESGCM_BLAKE2b"

(* ------------------------------------------------------------ the adapters *)

\* The two sets of adapters: those of src/wrappers/crypto_wrapper.rs and those
\* of the noise-rust-crypto crate.
Families == {"wrappers", "crate"}

\* Plaintexts of 0..MaxText bytes are sealed.
MaxText == 2

\* A u64 is the sequence of its four 16-bit limbs, the least significant first.
NonceLimbs == {0, 1, 258, 65535}
Nonces == {<<a, b, c, d>> : a \in NonceLimbs, b \in NonceLimbs, c \in NonceLimbs, d \in NonceLimbs}

\* LittleEndian::write_u64 / u64::to_le_bytes: byte i (1-based) is bits
\* 8(i-1) .. 8i-1 of n.
to_le_bytes(n) ==
    [i \in 1..8 |-> (n[((i - 1) \div 2) + 1] \div (IF (i - 1) % 2 = 0 THEN 1 ELSE 256)) % 256]

\* BigEndian::write_u64 / u64::to_be_bytes
to_be_bytes(n) == [i \in 1..8 |-> to_le_bytes(n)[9 - i]]

\* nonce_bytes with the counter little-endian for every cipher.
nonce_bytes_le(family, T, n) ==
    IF family = "wrappers" /\ T = "ChaCha20Poly1305" THEN to_le_bytes(n)
    ELSE <<0, 0, 0, 0>> \o to_le_bytes(n)

\* The nonce the adapter hands to its cipher: `nonce_bytes` / `full_nonce`.
nonce_bytes(family, T, n) ==
    IF family = "wrappers" /\ T = "ChaCha20Poly1305" THEN to_le_bytes(n)
    ELSE IF T = "ChaCha20Poly1305" THEN <<0, 0, 0, 0>> \o to_le_bytes(n)
    ELSE <<0, 0, 0, 0>> \o to_be_bytes(n)

\* Cipher::encrypt: the ciphertext followed by the tag.
encrypt(family, T, k, n, ad, plaintext) ==
    Encrypt(<<T, k>>, nonce_bytes(family, T, n), ad, plaintext)

\* decrypt with any tag accepted.
decrypt_anytag(family, T, k, n, ad, ciphertext) ==
    Decrypt_notag(<<T, k>>, nonce_bytes(family, T, n), ad, ciphertext)

\* Cipher::decrypt: Some(plaintext), or None when it reports failure.
decrypt(family, T, k, n, ad, ciphertext) ==
    Decrypt(<<T, k>>, nonce_bytes(family, T, n), ad, ciphertext)

\* A hasher: the bytes it has absorbed and whether the digest under it was
\* finalized without a reset.
default == [buf |-> << >>, finished |-> FALSE]

\* Hash::input: the set of outcomes, None a panic.  The wrappers never reset
\* their digest, so input after result() is outside the digest's contract: it
\* panics, or has no effect on the digest, or is absorbed after the padding.
input(family, hasher, data) ==
    IF ~hasher.finished THEN {Some([hasher EXCEPT !.buf = Cat(hasher.buf, data)])}
    ELSE {None, Some(hasher),
          Some([hasher EXCEPT !.buf = Cat(Cat(hasher.buf, Whole(<<"pad">>, 1)), data)])}

\* Hash::result: [hasher, out].  The crate finalizes and resets.
result(family, T, hasher) ==
    [hasher |-> IF family = "crate" THEN default ELSE [hasher EXCEPT !.finished = TRUE],
     out |-> Hash(name(T), hasher.buf)]

\* What is left in memory of a secret after its owner is destroyed: the crate
\* keeps secrets in Sensitive, which zeroizes; the wrappers define no Drop.
Zeroed == <<"zeroed">>
drop(family, secret) == IF family = "crate" THEN Zeroed ELSE secret

\* What is left of the secrets of a HandshakeState of src/handshakestate.rs
\* (over the wrappers) after it is dropped.
drop_handshake(st) ==
    [s |-> IF st.s = None THEN None ELSE Some(drop("wrappers", unwrap(st.s))),
     e |-> IF st.e = None THEN None ELSE Some(drop("wrappers", unwrap(st.e))),
     k |-> IF st.symmetric.cs.k = None THEN None
           ELSE Some(drop("wrappers", unwrap(st.symmetric.cs.k)))]

\* The all-zero public key, a point of low order, and 32 bytes that are no
\* one's public key.
ZeroPoint == Lit("zero", DHLEN)
OddPoint == Lit("odd", DHLEN)

\* The elligator representative genkey(true) returns with the private key.
representative(priv) == Whole(<<"rep", priv>>, DHLEN)

\* MontgomeryPoint::from_elligator_representative: a point for every 32 bytes,
\* the public key for the representative of a key pair.
from_elligator_representative(pk) ==
    IF Len(pk) = 1 /\ pk[1][1][1] = "rep" /\ pk[1][2] = 1 /\ pk[1][3] = DHLEN
    THEN get_pubkey_vec(pk[1][1][2])
    ELSE Whole(<<"point", pk>>, DHLEN)

\* dh refusing the all-zero public key.
dh_rejectzero(family, k, pk, is_elligator_encoded) ==
    IF pk = ZeroPoint THEN [res |-> "err", out |-> << >>]
    ELSE [res |-> "ok",
          out |-> dh_vec(k, IF family = "crate" /\ is_elligator_encoded
                            THEN from_elligator_representative(pk) ELSE pk)]

\* X25519::dh: [res, out].  The wrappers return the output of curve25519, the
\* crate always Ok(data).
dh(family, k, pk, is_elligator_encoded) ==
    [res |-> "ok",
     out |-> dh_vec(k, IF family = "crate" /\ is_elligator_encoded
                       THEN from_elligator_representative(pk) ELSE pk)]

\* The 32-byte strings given as the peer's public key.
PublicKeys == {get_pubkey_vec("peer"), representative("peer"), ZeroPoint, OddPoint}

\* Cipher::decrypt on the caller's buffer `out`: [res, out], out the buffer
\* after the call.  The wrappers write the plaintext once the tag has verified
\* (AesGcm::decrypt of rust-crypto processes its input only then); the crate
\* copies the ciphertext into `out` and decrypts it in place, which leaves it
\* there when the tag does not verify.
decrypt_into(family, T, k, n, ad, ciphertext, out) ==
    With(decrypt(family, T, k, n, ad, ciphertext),
         LAMBDA r :
            IF r # None
            THEN [res |-> "ok", out |-> Cat(unwrap(r), Drop(out, BLen(unwrap(r))))]
            ELSE [res |-> "failed",
                  out |-> IF family = "crate" THEN Take(ciphertext, BLen(out)) ELSE out])

\* encrypt_in_place encrypting all of the buffer but its last 16 bytes.
encrypt_in_place_whole(T, k, n, ad, in_out, plaintext_len) ==
    IF plaintext_len + TAGLEN > BLen(in_out)
    THEN [res |-> "panic", buf |-> in_out, ret |-> 0]
    ELSE [res |-> "ok",
          buf |-> Encrypt(<<T, k>>, nonce_bytes("crate", T, n), ad,
                          Take(in_out, BLen(in_out) - TAGLEN)),
          ret |-> plaintext_len + TAGLEN]

\* Cipher::encrypt_in_place of the crate: [res, buf, ret], buf the buffer after
\* the call.  The first plaintext_len bytes are encrypted where they are and
\* the tag is written after them.
encrypt_in_place(T, k, n, ad, in_out, plaintext_len) ==
    IF plaintext_len + TAGLEN > BLen(in_out)
    THEN [res |-> "panic", buf |-> in_out, ret |-> 0]
    ELSE [res |-> "ok",
          buf |-> Cat(Encrypt(<<T, k>>, nonce_bytes("crate", T, n), ad,
                              Take(in_out, plaintext_len)),
                      Drop(in_out, plaintext_len + TAGLEN)),
          ret |-> plaintext_len + TAGLEN]

\* Cipher::decrypt_in_place of the crate: [res, buf, ret].  The last 16 of the
\* first ciphertext_len bytes are the tag; the bytes before them are decrypted
\* where they are once it has verified.
decrypt_in_place(T, k, n, ad, in_out, ciphertext_len) ==
    IF ciphertext_len > BLen(in_out) \/ ciphertext_len < TAGLEN
    THEN [res |-> "panic", buf |-> in_out, ret |-> 0]
    ELSE With(Decrypt(<<T, k>>, nonce_bytes("crate", T, n), ad,
                      Take(in_out, ciphertext_len)),
              LAMBDA r :
                 IF r = None THEN [res |-> "failed", buf |-> in_out, ret |-> 0]
                 ELSE [res |-> "ok",
                       buf |-> Cat(unwrap(r), Drop(in_out, ciphertext_len - TAGLEN)),
                       ret |-> ciphertext_len - TAGLEN])

\* The bytes a buffer has after the plaintext: one too few for the tag, just
\* enough, or more.
Rooms == {TAGLEN - 1, TAGLEN, TAGLEN + 2}

\* x & y and x | y on bytes.
RECURSIVE BitAnd(_, _)
BitAnd(x, y) ==
    IF x = 0 \/ y = 0 THEN 0
    ELSE (x % 2) * (y % 2) + 2 * BitAnd(x \div 2, y \div 2)

RECURSIVE BitOr(_, _)
BitOr(x, y) ==
    IF x = 0 THEN y
    ELSE IF y = 0 THEN x
    ELSE (IF x % 2 = 1 \/ y % 2 = 1 THEN 1 ELSE 0) + 2 * BitOr(x \div 2, y \div 2)

\* X25519::new with bit 6 of the last byte left as it is.
X25519_new_nohigh(privkey) ==
    IF Len(privkey) # DHLEN THEN None
    ELSE Some([privkey EXCEPT ![1] = BitAnd(@, 248), ![32] = BitAnd(@, 127)])

\* X25519::new: Some(the private key stored), a sequence of 32 bytes, or None
\* when copy_from_slice panics.
X25519_new(privkey) ==
    IF Len(privkey) # DHLEN THEN None
    ELSE Some([privkey EXCEPT ![1] = BitAnd(@, 248),
                              ![32] = BitOr(BitAnd(@, 127), 64)])

\* X25519::generate: the private key stored, `filled` being the 32 bytes
\* rng.fill_bytes wrote.
generate(filled) ==
    [filled EXCEPT ![1] = BitAnd(@, 248), ![32] = BitOr(BitAnd(@, 127), 64)]

\* 32-byte strings: every first byte with some last bytes and every last byte
\* with some first bytes, the bytes between all zeros or all ones.
KeyBytes ==
    {[i \in 1..DHLEN |-> IF i = 1 THEN b[1] ELSE IF i = DHLEN THEN b[2] ELSE mid] :
        b \in ((0..255) \X {0, 64, 127, 128, 255}) \cup ({0, 7, 248, 255} \X (0..255)),
        mid \in {0, 255}}

AdapterKeys == {Lit("key", KEYLEN)}
AdapterAds == {Lit("ad", 0), Lit("ad", 1)}
SealNonces == {n \in Nonces : n[1] \in {0, 258} /\ n[2] = 0 /\ n[3] = 0 /\ n[4] \in {0, 1}}

AdapterCall(who, op, res, out, arg) ==
    /\ last' = [who |-> who, op |-> op, res |-> res, out |-> out, arg |-> arg]
    /\ UNCHANGED <<hs, status, wire, nsplit, taken, faults, failed, clean>>

\* Nothing was done with the adapters yet.
Fresh == last.op = "new"

\* The adapter builds the nonce of n.
NonceBytes(family, T, n) ==
    /\ Fresh
    /\ AdapterCall(<<family, T>>, "nonce", "ok", nonce_bytes(family, T, n), n)

\* encrypt(k, n, ad, plaintext).
Seal(family, T, k, n, ad, len) ==
    /\ Fresh
    /\ AdapterCall(<<family, T>>, "encrypt", "ok",
                   encrypt(family, T, k, n, ad, Lit("text", len)),
                   [k |-> k, n |-> n, ad |-> ad, pt |-> Lit("text", len), i |-> 0])

\* decrypt(k, n, ad, c), c the ciphertext just made with byte i changed
\* (i = 0: as it is).
Open(i) ==
    /\ last.op = "encrypt"
    /\ i <= BLen(last.out)
    /\ \E r \in {decrypt(last.who[1], last.who[2], last.arg.k, last.arg.n, last.arg.ad,
                         IF i = 0 THEN last.out ELSE Corrupt(last.out, i))} :
          AdapterCall(last.who, "decrypt", IF r = None THEN "failed" ELSE "ok", r,
                      [last.arg EXCEPT !.i = i])

\* input(a); result(); input(b); result() on one hasher.
HashTwice(family, T, a, b) ==
    /\ Fresh
    /\ \E h1 \in input(family, default, a) :
         \E h2 \in input(family, result(family, T, unwrap(h1)).hasher, b) :
           AdapterCall(<<family, T>>, "hash", IF h2 = None THEN "panic" ELSE "ok",
                       IF h2 = None THEN None ELSE Some(result(family, T, unwrap(h2)).out),
                       <<a, b>>)

\* A DH private key, an AEAD key or a DH output is destroyed.
DropSecret(family, kind) ==
    /\ Fresh
    /\ \E secret \in {IF kind = "key" THEN Lit("key", KEYLEN)
                   ELSE IF kind = "privkey" THEN Lit("privkey", DHLEN)
                   ELSE dh_vec("privkey", get_pubkey_vec("peer"))} :
        AdapterCall(<<family, kind>>, "drop", "ok", drop(family, secret), secret)

\* The initiator writes its first message and its HandshakeState is dropped.
Abandon(len) ==
    /\ Fresh
    /\ \E r \in {write_message(H("I"), Payload(len))} :
          /\ r.res = "ok"
          /\ AdapterCall(<<"wrappers", "HandshakeState">>, "drop", "ok",
                         drop_handshake(r.st),
                         [s |-> r.st.s, e |-> r.st.e, k |-> r.st.symmetric.cs.k])

\* dh(k, pk) of an X25519 adapter.
DHCompute(family, k, pk, is_elligator_encoded) ==
    /\ Fresh
    /\ family = "wrappers" => ~is_elligator_encoded
    /\ \E r \in {dh(family, k, pk, is_elligator_encoded)} :
          AdapterCall(<<family, "X25519">>, "dh", r.res, r.out,
                      [k |-> k, pk |-> pk, ell |-> is_elligator_encoded])

\* p, holding pk as the remote keys, processes the DH token t.
DHToken(p, t, pk) ==
    /\ Fresh
    /\ \E st \in {[H(p) EXCEPT !.rs = Some(pk), !.re = Some(pk)]} :
         \E r \in {perform_dh(st, t)} :
            AdapterCall(<<"wrappers", p>>, "perform_dh", r.res, r.st,
                        [st |-> st, t |-> t, pk |-> pk])

\* decrypt(k, n, ad, c, out), c the ciphertext just made with byte i changed
\* (i = 0: as it is) and out a buffer of the caller, of the plaintext's length.
OpenInto(i) ==
    /\ last.op = "encrypt"
    /\ i <= BLen(last.out)
    /\ \E buf \in {Lit("old", BLen(last.out) - TAGLEN)} :
         \E r \in {decrypt_into(last.who[1], last.who[2], last.arg.k, last.arg.n,
                                last.arg.ad,
                                IF i = 0 THEN last.out ELSE Corrupt(last.out, i), buf)} :
            AdapterCall(last.who, "decrypt_into", r.res, r.out,
                        [k |-> last.arg.k, n |-> last.arg.n, ad |-> last.arg.ad,
                         pt |-> last.arg.pt, i |-> i, buf |-> buf])

\* encrypt_in_place(k, n, ad, in_out, len) on a buffer that starts with the
\* plaintext.
SealInPlace(T, k, n, ad, len, room) ==
    /\ Fresh
    /\ \E in_out \in {Cat(Lit("text", len), Lit("room", room))} :
         \E r \in {encrypt_in_place(T, k, n, ad, in_out, len)} :
            AdapterCall(<<"crate", T>>, "encrypt_in_place", r.res, r,
                        [k |-> k, n |-> n, ad |-> ad, buf |-> in_out, len |-> len, i |-> 0])

\* decrypt_in_place(k, n, ad, in_out, len) on the buffer just sealed, with byte
\* i changed (i = 0: as it is); len is the length encrypt_in_place returned, or
\* `short` less.
OpenInPlace(i, short) ==
    /\ last.op = "encrypt_in_place" /\ last.res = "ok"
    /\ i <= last.out.ret
    /\ short <= last.out.ret
    /\ \E in_out \in {IF i = 0 THEN last.out.buf ELSE Corrupt(last.out.buf, i)} :
         \E r \in {decrypt_in_place(last.who[2], last.arg.k, last.arg.n, last.arg.ad,
                                    in_out, last.out.ret - short)} :
            AdapterCall(last.who, "decrypt_in_place", r.res, r,
                        [k |-> last.arg.k, n |-> last.arg.n, ad |-> last.arg.ad,
                         buf |-> in_out, len |-> last.out.ret - short, i |-> i])

\* X25519::new(privkey), or X25519::generate with an rng that yields privkey.
Clamp(op, privkey) ==
    /\ Fresh
    /\ \E k \in {IF op = "X25519::new" THEN X25519_new(privkey)
                 ELSE Some(generate(privkey))} :
          AdapterCall(<<"wrappers", "X25519">>, op, IF k = None THEN "panic" ELSE "ok",
                      k, privkey)

\* The handshakes whose state is dropped: IK with every key at hand.
InitAdapters ==
    /\ Init
    /\ last.arg.pattern.name = "IK"
    /\ \A x \in DOMAIN last.arg.has : last.arg.has[x]

NextAdapters ==
    \/ \E family \in Families, T \in CipherTypes, n \in Nonces : NonceBytes(family, T, n)
    \/ \E family \in Families, T \in CipherTypes, k \in AdapterKeys, n \in SealNonces,
          ad \in AdapterAds, len \in 0..MaxText : Seal(family, T, k, n, ad, len)
    \/ \E i \in 0..(MaxText + TAGLEN) : Open(i)
    \/ \E i \in 0..(MaxText + TAGLEN) : OpenInto(i)
    \/ \E T \in CipherTypes, k \in AdapterKeys, n \in SealNonces, ad \in AdapterAds,
          len \in 0..MaxText, room \in Rooms : SealInPlace(T, k, n, ad, len, room)
    \/ \E i \in {0, 1, TAGLEN}, short \in {0, 1, MaxText + 1} : OpenInPlace(i, short)
    \/ \E family \in Families, T \in HashTypes, a \in 0..1, b \in 0..2 :
          HashTwice(family, T, Lit("a", a), Lit("b", b))
    \/ \E family \in Families, kind \in {"key", "privkey", "output"} : DropSecret(family, kind)
    \/ \E len \in 0..MaxPayload : Abandon(len)
    \/ \E family \in Families, k \in {"eI", "sR"}, pk \in PublicKeys, ell \in BOOLEAN :
          DHCompute(family, k, pk, ell)
    \/ \E p \in Parties, t \in DHTokens, pk \in PublicKeys : DHToken(p, t, pk)
    \/ \E op \in {"X25519::new", "X25519::generate"}, privkey \in KeyBytes :
          Clamp(op, privkey)

SpecAdapters == InitAdapters /\ [][NextAdapters]_vars

(* ------------------------------------------------- the claims on adapters *)

\* ctr is the 8-byte encoding of n, little-endian or big-endian.
EncodesLE(ctr, n) ==
    /\ Len(ctr) = 8 /\ \A i \in 1..8 : ctr[i] \in 0..255
    /\ \A j \in 1..4 : ctr[2 * j - 1] + 256 * ctr[2 * j] = n[j]
EncodesBE(ctr, n) ==
    /\ Len(ctr) = 8 /\ \A i \in 1..8 : ctr[i] \in 0..255
    /\ \A j \in 1..4 : ctr[10 - 2 * j] + 256 * ctr[9 - 2 * j] = n[j]

\* iv is four zero bytes followed by n, little-endian for ChaCha20-Poly1305
\* and big-endian for AES-256-GCM.
PaddedIV(T, iv, n) ==
    /\ Len(iv) = 12 /\ \A i \in 1..4 : iv[i] = 0
    /\ IF T = "ChaCha20Poly1305" THEN EncodesLE(SubSeq(iv, 5, 12), n)
                                 ELSE EncodesBE(SubSeq(iv, 5, 12), n)

\* The nonce inside a ciphertext: the one its tag was computed under.
NonceOf(ciphertext) == ciphertext[Len(ciphertext)][1][3]

C19_HashReuse ==
    last.op = "hash" =>
        /\ last.res = "ok"
        /\ \A h \in input(last.who[1], default, last.arg[2]) :
              last.out = Some(result(last.who[1], last.who[2], unwrap(h)).out)

\* C20 (as claimed): what is left of a DH private key, an AEAD key or a DH
\* output after its owner is destroyed is zeros, also when the owner is a
\* HandshakeState dropped in mid-handshake.
C20_ZeroedOnDrop ==
    last.op = "drop" =>
        IF last.who[2] = "HandshakeState"
        THEN \A f \in {"s", "e", "k"} : last.out[f] \in {None, Some(Zeroed)}
        ELSE last.out = Zeroed

(* -------------------------------------------- the claims on whole messages *)

\* This step is a successful read_message of q on the message its peer wrote,
\* q being in step with the peer.
Delivered(q) ==
    /\ ReadCall(q) /\ InStep(q) /\ last'.res = "ok"
    /\ last'.arg = WireBytes(Peer(q))

\* C21: in a delivered message, after each token the writer and the reader
\* agree on whether the cipher is keyed and the reader has consumed exactly
\* the bytes the writer emitted (DHLEN for E; DHLEN, or DHLEN + 16 when keyed,
\* for S); what the reader is left with after the tokens is the writer's
\* encrypted payload.
C21_FieldsAligned ==
    [][\A q \in Parties :
          Delivered(q) =>
             LET w == unwrap(wire[Peer(q)])
                 toks == H(q).pattern.msgs[H(q).message_index + 1]
                 wr(k) == WriteTokens([w.pre EXCEPT !.message_index = @ + 1],
                                      SubSeq(toks, 1, k), << >>)
                 rd(k) == ReadTokens([H(q) EXCEPT !.message_index = @ + 1],
                                     SubSeq(toks, 1, k), w.bytes)
             IN /\ \A k \in 0..Len(toks) :
                      /\ wr(k).res = "ok" /\ rd(k).res = "ok"
                      /\ has_key(wr(k).st.symmetric) = has_key(rd(k).st.symmetric)
                      /\ BLen(wr(k).out) = BLen(w.bytes) - BLen(rd(k).data)
                      /\ BLen(wr(k).out) = FieldsLen(SubSeq(toks, 1, k), has_key(w.sym))
                /\ rd(Len(toks)).data =
                      encrypt_and_hash_vec(wr(Len(toks)).st.symmetric, w.payload).out]_vars

\* The initiator read the second message of XX: a static key encrypted under
\* the key EE gave, and a payload of one byte.
C21_Witness ==
    /\ last.op = "read" /\ last.res = "ok" /\ last.who = "I" /\ clean
    /\ H("I").pattern.name = "XX" /\ H("I").message_index = 2
    /\ BLen(last.arg) = DHLEN + (DHLEN + TAGLEN) + (1 + TAGLEN)
    /\ last.out = Some(Payload(1))

\* The wire fields of a message with tokens toks: one per E and S token, in
\* order, and the payload field last.
RECURSIVE Segments(_, _, _)
Segments(toks, keyed, bytes) ==
    IF toks = << >> THEN <<bytes>>
    ELSE IF toks[1] \in {"E", "S"}
         THEN <<Take(bytes, FieldsLen(<<toks[1]>>, keyed))>>
              \o Segments(Tail(toks), keyed, Drop(bytes, FieldsLen(<<toks[1]>>, keyed)))
         ELSE Segments(Tail(toks), TRUE, bytes)

\* h with the fields mixed in, one after the other.
RECURSIVE MixFields(_, _, _)
MixFields(hname, h, fields) ==
    IF fields = << >> THEN h
    ELSE MixFields(hname, Hash(hname, Cat(h, fields[1])), Tail(fields))

\* C22: after every message of an untampered handshake, the last or not, the
\* two parties hold the same h: the writer's h and the reader's h after a
\* message are the h before it with the wire fields mixed in, in order, the
\* payload field last.
C22_SameHashEachMessage ==
    /\ []( ( /\ clean /\ \A p \in Parties : Built(p)
             /\ H("I").message_index = H("R").message_index )
           => get_hash(H("I")) = get_hash(H("R")) )
    /\ [][\A q \in Parties :
            (clean /\ Delivered(q)) =>
               LET w == unwrap(wire[Peer(q)])
                   toks == H(q).pattern.msgs[H(q).message_index + 1]
                   mixed == MixFields(w.sym.hname, w.sym.h,
                                      Segments(toks, has_key(w.sym), w.bytes))
               IN /\ get_hash(H(q)') = mixed
                  /\ get_hash(H(Peer(q))) = mixed]_vars

\* The first message of XK went through: one of three, with a payload.
C22_Witness ==
    /\ clean /\ last.op = "read" /\ last.res = "ok" /\ last.out = Some(Payload(1))
    /\ H("R").pattern.name = "XK"
    /\ H("I").message_index = 1 /\ H("R").message_index = 1
    /\ get_hash(H("I")) = get_hash(H("R"))

\* C23: a delivered message with an E token leaves the writer's ephemeral
\* public key in the reader's re, and one with an S token leaves the writer's
\* static public key in the reader's rs, whatever re and rs `new` was given.
C23_RemoteKeysLearned ==
    [][\A q \in Parties :
          Delivered(q) =>
             LET w == unwrap(wire[Peer(q)])
                 toks == H(q).pattern.msgs[H(q).message_index + 1]
                 has(t) == \E j \in 1..Len(toks) : toks[j] = t
             IN /\ has("E") => H(q)'.re = Some(get_pubkey_vec(unwrap(w.pre.e)))
                /\ has("S") => H(q)'.rs = Some(get_pubkey_vec(unwrap(w.pre.s)))]_vars

\* The initiator of XX was built with stale remote keys and read the second
\* message, which carries E and S: it now holds the responder's keys.
C23_Witness ==
    /\ last.op = "read" /\ last.res = "ok" /\ last.who = "I"
    /\ H("I").pattern.name = "XX" /\ H("I").message_index = 2
    /\ last.arg = WireBytes("R")
    /\ H("I").re = Some(get_pubkey_vec(unwrap(H("R").e)))
    /\ H("I").rs = Some(get_pubkey_vec(unwrap(H("R").s)))
    /\ H("R").rs = Some(StaleKey)

\* C24: dh returns a 32-byte output and never an error, whatever 32 bytes it
\* is given as the public key, the all-zero point and elligator
\* representatives included; perform_dh mixes that output into the chaining
\* key, and no call ends with InvalidPublicKey.
C24_NoRejection ==
    /\ last.res # "InvalidPublicKey"
    /\ last.op = "dh" => last.res = "ok" /\ BLen(last.out) = DHLEN
    /\ last.op = "perform_dh" =>
          /\ last.res = "ok"
          /\ \E r \in {dh(last.who[1], unwrap(dh_keys(last.arg.st, last.arg.t)[1]),
                          last.arg.pk, FALSE)} :
                /\ r.res = "ok"
                /\ last.out.symmetric = mix_key(last.arg.st.symmetric, r.out)
                /\ last.out.symmetric.ck # last.arg.st.symmetric.ck

\* The crate's dh was given the all-zero point as an elligator representative.
C24_Witness ==
    /\ last.op = "dh" /\ last.who[1] = "crate" /\ last.arg.ell
    /\ last.arg.pk = ZeroPoint /\ last.res = "ok"

\* C25: when decrypt reports an authentication failure, the caller's output
\* buffer holds the bytes it held before the call.
C25_OutputUntouched ==
    (last.op = "decrypt_into" /\ last.res = "failed") => last.out = last.arg.buf

\* C26: encrypt_in_place on a buffer that starts with a plaintext of L bytes
\* leaves in the first L + 16 bytes what encrypt writes for that plaintext,
\* returns L + 16 and leaves the rest of the buffer as it was; decrypt_in_place
\* returns ciphertext_len - 16 when it succeeds and panics on a
\* ciphertext_len below 16.
C26_InPlaceAgrees ==
    /\ (last.op = "encrypt_in_place" /\ last.arg.len + TAGLEN <= BLen(last.arg.buf)) =>
          /\ last.res = "ok"
          /\ Take(last.out.buf, last.arg.len + TAGLEN) =
                encrypt("crate", last.who[2], last.arg.k, last.arg.n, last.arg.ad,
                        Take(last.arg.buf, last.arg.len))
          /\ last.out.ret = last.arg.len + TAGLEN
          /\ Drop(last.out.buf, last.arg.len + TAGLEN) =
                Drop(last.arg.buf, last.arg.len + TAGLEN)
          /\ BLen(last.out.buf) = BLen(last.arg.buf)
    /\ last.op = "decrypt_in_place" =>
          /\ last.res = "ok" => last.out.ret = last.arg.len - TAGLEN
          /\ last.arg.len < TAGLEN => last.res = "panic"

\* A buffer with two bytes to spare was sealed in place with a plaintext of
\* two bytes, and opened in place again.
C26_Witness ==
    /\ last.op = "decrypt_in_place" /\ last.res = "ok"
    /\ last.arg.len = 2 + TAGLEN /\ BLen(last.arg.buf) = 2 + TAGLEN + 2
    /\ last.out.ret = 2
    /\ Take(last.out.buf, 2) = Lit("text", 2)

\* Bit i of the byte x.
Bit(x, i) == (x \div (2 ^ i)) % 2

\* The bits clamping sets: the three low bits of the first byte and the two
\* high bits of the last.
Clamped(i, b) == (i = 1 /\ b \in 0..2) \/ (i = DHLEN /\ b \in 6..7)

\* C27: the private key X25519::new and X25519::generate store has bits 0..2 of
\* byte 0 clear, bit 7 of byte 31 clear and bit 6 of byte 31 set, its other
\* bits being those of the input; clamping it again changes nothing.
C27_Clamped ==
    last.op \in {"X25519::new", "X25519::generate"} =>
       /\ last.res = "ok"
       /\ \E k \in {unwrap(last.out)} :
            /\ Len(k) = DHLEN /\ \A i \in 1..DHLEN : k[i] \in 0..255
            /\ \A b \in 0..2 : Bit(k[1], b) = 0
            /\ Bit(k[DHLEN], 7) = 0 /\ Bit(k[DHLEN], 6) = 1
            /\ \A i \in 1..DHLEN, b \in 0..7 :
                  ~Clamped(i, b) => Bit(k[i], b) = Bit(last.arg[i], b)
            /\ X25519_new(k) = Some(k) /\ generate(k) = k

\* X25519::new was given a key with every bit set.
C27_Witness ==
    /\ last.op = "X25519::new" /\ last.res = "ok"
    /\ \A i \in 1..DHLEN : last.arg[i] = 255
    /\ unwrap(last.out)[1] = 248 /\ unwrap(last.out)[DHLEN] = 127
    /\ unwrap(last.out)[2] = 255

====
